---- MODULE Spec2Model ----
(***************************************************************************)
(* A model of src/src/core: MemoryManager.js, the pattern memory store,    *)
(* and after it StrategyVerifier.js and TemporalAnalyzer.js, each with     *)
(* its own variables and specifications.                                   *)
(*                                                                         *)
(* JavaScript runs one job at a time: an async method runs without         *)
(* interruption up to its first await, and its continuation is a microtask *)
(* that again runs without interruption.  Every public async method of     *)
(* MemoryManager has exactly one await, `await this._ensureInitialized()`, *)
(* so a call is an invocation step followed by one body step; the          *)
(* microtask queue and the reaction list of _initPromise decide the order  *)
(* of the body steps.                                                      *)
(*                                                                         *)
(* The optional backend (the agentdb package) is not part of the           *)
(* repository.  It is modelled by its capability interface: each call      *)
(* either throws or does what the interface says.                          *)
(*                                                                         *)
(* Numbers.  Feature values are drawn so that every normalised feature is  *)
(* a small integer (exact in Float32Array).  A cosine similarity c is      *)
(* represented exactly by the fraction num/den = sign(c) * c^2, which      *)
(* orders similarities as c does; floating-point rounding is not modelled. *)
(* The timestamp of an entry (Date.now()) is carried through by the code   *)
(* and read by no operation; it is left out of the entries.                *)
(***************************************************************************)
EXTENDS Integers, Sequences, FiniteSets, TLC

\* ------------------------------------------------------------------ bounds

\* Entries the store may hold.
MaxPatterns == 3
\* Calls that may be suspended at their await at the same time.
MaxInflight == 2
\* The same for a client that awaits each call before the next.
SeqInflight == 1
\* Largest k passed to findSimilar.
MaxK == 3

\* ------------------------------------------------------- program constants

\* new Array(128): the dimension of a feature vector.
D == 128
\* addCausalEdge(..., 0.8, 1): the confidence, in tenths, and the weight.
ConfidenceTenths == 8
EdgeWeight == 1
\* retrieveRelevant(taskType, 10, 0.5): the limit.
RetrieveLimit == 10
\* The divisors of _patternToVector.
PriceScale == 1000
VolumeScale == 10000
CashScale == 100000
\* findSimilar(currentPattern, k = 5)
DefaultK == 5

\* ------------------------------------------------------------------ inputs

\* Pattern records.  A record without a momentum or positions field models
\* a JavaScript object without that property.
PatBuyA == [action |-> "buy", price |-> 1000, volume |-> 10000,
            momentum |-> 1, cash |-> 100000, positions |-> 0]
PatBuyB == [action |-> "buy", price |-> 3000, volume |-> 0,
            momentum |-> 0, cash |-> 0, positions |-> 1]
PatSell == [action |-> "sell", price |-> 1000, volume |-> 10000,
            cash |-> 0]
PatHold == [action |-> "hold", price |-> 0, volume |-> 0,
            momentum |-> -1, cash |-> 0, positions |-> 0]
\* An action outside the vocabulary and no feature: the zero vector.
PatOther == [action |-> "short", price |-> 0, volume |-> 0,
             momentum |-> 0, cash |-> 0, positions |-> 0]

Patterns == {PatBuyA, PatBuyB, PatSell, PatHold, PatOther}
Actions == {"buy", "sell", "hold", "short"}
\* Trajectories: the empty one, those of one step and one of two steps.
Trajectories ==
  {<<>>, <<[action |-> "sell"], [action |-> "buy"]>>}
    \cup {<<[action |-> a]>> : a \in {"buy", "sell"}}
Ks == (0..MaxK) \cup {DefaultK}

\* --------------------------------------------------------- the encoder

\* pattern.f, or 0 for a missing property under `pattern.f || 0`.
OrZero(pattern, f) ==
  IF f \in DOMAIN pattern THEN pattern[f] ELSE 0

\* actionIdx over the vocabulary in another order: sell, buy, hold.
actionIdxSellFirst(action) ==
  CASE action = "sell" -> 0
    [] action = "buy" -> 1
    [] action = "hold" -> 2
    [] OTHER -> -1

\* actions.indexOf(pattern.action), -1 when absent.
actionIdx(action) ==
  CASE action = "buy" -> 0
    [] action = "sell" -> 1
    [] action = "hold" -> 2
    [] OTHER -> -1

\* _patternToVector: the array of D numbers; dimension i of the code is
\* index i+1 here.
patternToVector(pattern) ==
  [i \in 1..D |->
     CASE i = 1 -> pattern.price \div PriceScale
       [] i = 2 -> pattern.volume \div VolumeScale
       [] i = 3 -> OrZero(pattern, "momentum")
       [] i = 4 -> pattern.cash \div CashScale
       [] i = 5 -> OrZero(pattern, "positions")
       [] OTHER -> IF actionIdx(pattern.action) # -1
                      /\ i = 5 + actionIdx(pattern.action) + 1
                   THEN 1 ELSE 0]

\* Float32Array.from(array).  A typed array is held as its length and its
\* non-zero elements: an exact encoding of any array of that length.
Float32ArrayFrom(array) ==
  [length |-> Len(array),
   nz |-> [i \in {j \in 1..Len(array) : array[j] # 0} |-> array[i]]]

\* vec[i - 1] of the code, for 1 <= i <= vec.length.
At(vec, i) == IF i \in DOMAIN vec.nz THEN vec.nz[i] ELSE 0

\* ------------------------------------------------------- the similarity

RECURSIVE SumOver(_, _, _)
SumOver(a, b, I) ==
  IF I = {} THEN 0
  ELSE LET i == CHOOSE j \in I : TRUE
       IN At(a, i) * At(b, i) + SumOver(a, b, I \ {i})

\* The sum of a[i] * b[i] over the loop `i < queryVector.length` of
\* _manualCosineSimilarity, for arrays of one length.  The terms in which a
\* factor is 0 add nothing, so the sum runs over the others.
Dot(a, b) == SumOver(a, b, DOMAIN a.nz \cap DOMAIN b.nz)

Sign(x) == IF x > 0 THEN 1 ELSE IF x < 0 THEN -1 ELSE 0

\* cosine without the test for a zero magnitude: the division 0 / 0, whose
\* result is NaN, is the fraction with denominator 0.
cosineUnguarded(queryVector, vec) ==
  LET dotProduct == Dot(queryVector, vec)
      queryMagnitude2 == Dot(queryVector, queryVector)
      vecMagnitude2 == Dot(vec, vec)
  IN [num |-> Sign(dotProduct) * dotProduct * dotProduct,
      den |-> queryMagnitude2 * vecMagnitude2]

\* One element of _manualCosineSimilarity: 0 when a magnitude is 0, else
\* dot / (|q| * |v|), held as the fraction sign(c) * c^2.
cosine(queryVector, vec) ==
  LET dotProduct == Dot(queryVector, vec)
      queryMagnitude2 == Dot(queryVector, queryVector)
      vecMagnitude2 == Dot(vec, vec)
  IN IF queryMagnitude2 = 0 \/ vecMagnitude2 = 0
     THEN [num |-> 0, den |-> 1]
     ELSE [num |-> Sign(dotProduct) * dotProduct * dotProduct,
           den |-> queryMagnitude2 * vecMagnitude2]

manualCosineSimilarity(queryVector, vecs) ==
  [i \in 1..Len(vecs) |-> cosine(queryVector, vecs[i])]

\* sign(x - y) for two similarities.
SimCmp(x, y) == Sign(x.num * y.den - y.num * x.den)

\* ------------------------------------------------------------ the state

VARIABLES
  initialized,   \* this._initialized
  components,    \* which of db, vectorSearch, reflexion, skillLibrary,
                 \* causalGraph are not null
  initPromise,   \* this._initPromise: "pending" or "fulfilled"
  initWaiters,   \* the calls suspended on _initPromise, in order
  microtasks,    \* the microtask queue: continuations ready to run
                 \* (a call carries a ticket: for a storePattern call the
                 \* number of storePattern calls issued before it, else 0;
                 \* the code reads no such number, it names the call)
  patterns,      \* this.patterns
  vectors,       \* this.vectors
  skills,        \* backend: the skill library's records
  episodes,      \* backend: the reflexion memory's episodes
  edges,         \* backend: the causal graph's edges
  ret,           \* what the step just taken returned to its caller, with
                 \* the backend components the call used
  \* StrategyVerifier
  lean,          \* this.lean is not null
  leanAvailable, \* this.leanAvailable
  leanInit,      \* _initializeLean(): "pending" or "settled"
  memoryInit,    \* the _initPromise of the verifier's own MemoryManager
  proofs,        \* this.proofs, the audit trail
  verifications, \* the verifyStrategy calls made so far, each with its
                 \* position and its locals
  \* TemporalAnalyzer
  midstream,            \* this.midstream is not null
  analyzerInitialized,  \* this._initialized
  analyzerInitPromise,  \* this._initPromise: "pending" or "fulfilled"
  metaPatterns,         \* this.metaPatterns: key -> count
  analyses              \* the analyzePattern calls made so far, each with
                        \* its position and its locals

verifier == <<lean, leanAvailable, leanInit, memoryInit, proofs,
              verifications>>
analyzer == <<midstream, analyzerInitialized, analyzerInitPromise,
              metaPatterns, analyses>>
memory == <<initialized, components, initPromise, initWaiters, microtasks,
            patterns, vectors, skills, episodes, edges>>

vars == <<memory, ret, verifier, analyzer>>

\* The other two objects, which no method of MemoryManager touches.
others == <<verifier, analyzer>>

store == <<patterns, vectors>>
backend == <<skills, episodes, edges>>
init == <<initialized, components, initPromise>>

\* The components in the order _initialize constructs them.
ComponentOrder == <<"db", "vectorSearch", "reflexion", "skillLibrary",
                    "causalGraph">>

\* The async methods; each awaits _ensureInitialized first.
AsyncOps == {"storePattern", "findSimilar", "getSelfCritique",
             "getCausalReasoning", "close"}

\* No return: the step was not the end of a call.
NoRet == [op |-> "none"]

Min(a, b) == IF a < b THEN a ELSE b

Last(s) == s[Len(s)]

\* The calls suspended at their await.
Inflight == initWaiters \o microtasks

StoresInflight ==
  Cardinality({i \in 1..Len(Inflight) : Inflight[i].op = "storePattern"})

\* The constructor: lines 5-22.  _initialize has started and is suspended
\* at its `await import('agentdb')`.
Init ==
  /\ initialized = FALSE
  /\ components = {}
  /\ initPromise = "pending"
  /\ initWaiters = <<>>
  /\ microtasks = <<>>
  /\ patterns = <<>>
  /\ vectors = <<>>
  /\ skills = <<>>
  /\ episodes = <<>>
  /\ edges = <<>>
  /\ ret = NoRet
  \* StrategyVerifier.js lines 5-19: _initializeLean has started and is
  \* suspended at its `await import('lean-agentic')`; the verifier's
  \* MemoryManager is initializing.
  /\ lean = FALSE
  /\ leanAvailable = FALSE
  /\ leanInit = "pending"
  /\ memoryInit = "pending"
  /\ proofs = <<>>
  /\ verifications = <<>>
  \* TemporalAnalyzer.js lines 4-14: _initialize has started and is
  \* suspended at its `await import('midstreamer')`.
  /\ midstream = FALSE
  /\ analyzerInitialized = FALSE
  /\ analyzerInitPromise = "pending"
  /\ metaPatterns = [key \in {} |-> 0]
  /\ analyses = <<>>

\* ------------------------------------------------- initialization, awaits

\* InitSettle with the waiters of _initPromise resumed last come, first
\* served.
InitSettleLastFirst(Builts) ==
  /\ initPromise = "pending"
  /\ \E built \in Builts :
       /\ components' = {ComponentOrder[i] : i \in 1..built}
       /\ initialized' = (built = Len(ComponentOrder))
  /\ initPromise' = "fulfilled"
  /\ microtasks' = microtasks \o
       [i \in 1..Len(initWaiters) |->
          [op |-> initWaiters[Len(initWaiters) + 1 - i].op,
           ticket |-> initWaiters[Len(initWaiters) + 1 - i].ticket,
           stage |-> "ensure"]]
  /\ initWaiters' = <<>>
  /\ ret' = NoRet
  /\ UNCHANGED <<patterns, vectors, skills, episodes, edges>>
  /\ UNCHANGED others

\* The continuation of _initialize after the import settles.  built is the
\* number of components constructed before something throws: 0 when the
\* import itself (or createDatabase) fails, 5 when nothing does.  Returning
\* fulfils _initPromise, which queues the continuations of its waiters.
InitSettle(Builts) ==
  /\ initPromise = "pending"
  /\ \E built \in Builts :
       /\ components' = {ComponentOrder[i] : i \in 1..built}
       /\ initialized' = (built = Len(ComponentOrder))
  /\ initPromise' = "fulfilled"
  /\ microtasks' = microtasks \o
       [i \in 1..Len(initWaiters) |->
          [op |-> initWaiters[i].op, ticket |-> initWaiters[i].ticket,
           stage |-> "ensure"]]
  /\ initWaiters' = <<>>
  /\ ret' = NoRet
  /\ UNCHANGED <<store, backend>>
  /\ UNCHANGED others

\* A call of an async method, up to its await.  _ensureInitialized returns
\* at once when _initialized holds (the caller's await then queues the body);
\* otherwise it awaits _initPromise, on its reaction list while the promise
\* is pending and through the microtask queue once it is fulfilled.
\* The arguments are values that nothing reads before the body runs; the
\* body step draws them.
Invoke(op, maxInflight) ==
  /\ Len(Inflight) < maxInflight
  /\ op = "storePattern" => Len(patterns) + StoresInflight < MaxPatterns
  /\ LET ticket == IF op = "storePattern"
                   THEN Len(patterns) + StoresInflight ELSE 0
     IN IF initialized
        THEN /\ microtasks' = Append(microtasks,
                    [op |-> op, ticket |-> ticket, stage |-> "body"])
             /\ UNCHANGED initWaiters
        ELSE IF initPromise = "pending"
        THEN /\ initWaiters' = Append(initWaiters,
                    [op |-> op, ticket |-> ticket])
             /\ UNCHANGED microtasks
        ELSE /\ microtasks' = Append(microtasks,
                    [op |-> op, ticket |-> ticket, stage |-> "ensure"])
             /\ UNCHANGED initWaiters
  /\ ret' = NoRet
  /\ UNCHANGED <<init, store, backend>>
  /\ UNCHANGED others

\* The continuation of _ensureInitialized after `await this._initPromise`:
\* it returns, which queues the body of the method that awaits it.
EnsureResume ==
  /\ microtasks # <<>>
  /\ Head(microtasks).stage = "ensure"
  /\ microtasks' = Append(Tail(microtasks),
                          [Head(microtasks) EXCEPT !.stage = "body"])
  /\ ret' = NoRet
  /\ UNCHANGED <<init, initWaiters, store, backend>>
  /\ UNCHANGED others

\* The body of op is the next microtask.
BodyReady(op) ==
  /\ microtasks # <<>>
  /\ Head(microtasks).op = op
  /\ Head(microtasks).stage = "body"

\* ---------------------------------------------------------- storePattern

\* The backend calls storePattern may make.
StoreCalls == {"createSkill", "storeEpisode", "addCausalEdge"}

\* isSuccess with 0 counted as a success.
isSuccessNonNegative(outcome) == outcome >= 0

\* outcome > 0: the success flag of an entry.
isSuccess(outcome) == outcome > 0

\* newEntry with the id read after the push instead of before it.
newEntryIdAfterPush(pattern, outcome, pats) ==
  [pattern |-> pattern,
   outcome |-> outcome,
   success |-> outcome > 0,
   action |-> pattern.action,
   id |-> Len(pats) + 1,
   skillId |-> 0]

\* Lines 69-76: the entry of a new pattern; skillId 0 is `undefined`.
newEntry(pattern, outcome, pats) ==
  [pattern |-> pattern,
   outcome |-> outcome,
   success |-> isSuccess(outcome),
   action |-> pattern.action,
   id |-> Len(pats),
   skillId |-> 0]

\* pushVector with the first stored vector pushed again in place of the
\* new one.
pushVectorStale(vecs, embedding) ==
  Append(vecs, IF vecs = <<>> THEN Float32ArrayFrom(embedding) ELSE vecs[1])

\* pushVector without the push.
pushVectorDropped(vecs, embedding) == vecs

\* Line 79: this.vectors.push(Float32Array.from(embedding)).
pushVector(vecs, embedding) == Append(vecs, Float32ArrayFrom(embedding))

\* pushEntry with unshift in place of push.
pushEntryUnshift(pats, entry) == <<entry>> \o pats

\* Line 80: this.patterns.push(entry).
pushEntry(pats, entry) == Append(pats, entry)

\* Lines 84-95, 100-114, 119-130: a backend call inside try/catch.  "ok" when
\* it returned, "caught" when it threw and the catch swallowed it; "raised"
\* stands for an exception that leaves storePattern.
trySkillUncaught(threw) == IF threw THEN "raised" ELSE "ok"
trySkill(threw) == IF threw THEN "caught" ELSE "ok"
tryEpisode(threw) == IF threw THEN "caught" ELSE "ok"
tryEdge(threw) == IF threw THEN "caught" ELSE "ok"

\* Lines 101-111: the arguments of storeEpisode that depend on the call.
episodeOf(entry) ==
  [session |-> entry.id,
   task |-> entry.pattern.action,
   reward |-> IF entry.outcome > 0 THEN 1 ELSE 0,
   success |-> entry.outcome > 0,
   outcome |-> entry.outcome]

\* causalEdgeOf with the delta taken the other way round.
causalEdgeOfDeltaReversed(pats, entry) ==
  LET prevPattern == pats[Len(pats) - 1]
  IN [fromId |-> prevPattern.id,
      toId |-> entry.id,
      deltaOutcome |-> prevPattern.outcome - entry.outcome,
      confidence |-> ConfidenceTenths,
      weight |-> EdgeWeight]

\* causalEdgeOf with the first entry, not the previous one, as the cause.
causalEdgeOfFromFirst(pats, entry) ==
  LET prevPattern == pats[1]
  IN [fromId |-> prevPattern.id,
      toId |-> entry.id,
      deltaOutcome |-> entry.outcome - prevPattern.outcome,
      confidence |-> ConfidenceTenths,
      weight |-> EdgeWeight]

\* Lines 120-127: the arguments of addCausalEdge; pats already holds entry.
causalEdgeOf(pats, entry) ==
  LET prevPattern == pats[Len(pats) - 1]
  IN [fromId |-> prevPattern.id,
      toId |-> entry.id,
      deltaOutcome |-> entry.outcome - prevPattern.outcome,
      confidence |-> ConfidenceTenths,
      weight |-> EdgeWeight]

\* Backend, createSkill: records the skill and returns its id.
createSkill(sk, name) == Append(sk, name)
\* Backend, storeEpisode: appends the episode.
storeEpisode(eps, episode) == Append(eps, episode)
\* Backend, addCausalEdge: records the edge; ids are not validated.
addCausalEdge(es, edge) == Append(es, edge)

\* The body of storePattern, lines 65-133, run from the current state with
\* the backend calls in threw throwing.  The result names the new value of
\* every variable the body writes, whether an exception left the method
\* (raised), the value returned, and the backend calls made that threw.
storePattern(pattern, outcome, threw) ==
  LET embedding == patternToVector(pattern)
      entry == newEntry(pattern, outcome, patterns)
      vectors1 == pushVector(vectors, embedding)
      patterns1 == pushEntry(patterns, entry)
      \* lines 83-96
      skillTried == initialized /\ "skillLibrary" \in components /\ outcome > 0
      skillRes == IF skillTried THEN trySkill("createSkill" \in threw)
                  ELSE "skipped"
      skills1 == IF skillRes = "ok"
                 THEN createSkill(skills, <<pattern.action, entry.id>>)
                 ELSE skills
      entry1 == IF skillRes = "ok"
                THEN [entry EXCEPT !.skillId = Len(skills1)]
                ELSE entry
      patterns2 == IF Len(patterns1) > 0
                   THEN [patterns1 EXCEPT ![Len(patterns1)] = entry1]
                   ELSE patterns1
      \* lines 99-115
      episodeTried == skillRes # "raised" /\ initialized
                      /\ "reflexion" \in components
      episodeRes == IF episodeTried THEN tryEpisode("storeEpisode" \in threw)
                    ELSE "skipped"
      episodes1 == IF episodeRes = "ok"
                   THEN storeEpisode(episodes, episodeOf(entry1))
                   ELSE episodes
      \* lines 118-131
      edgeTried == skillRes # "raised" /\ episodeRes # "raised"
                   /\ initialized /\ "causalGraph" \in components
                   /\ Len(patterns2) > 1
      edgeRes == IF edgeTried THEN tryEdge("addCausalEdge" \in threw)
                 ELSE "skipped"
      edges1 == IF edgeRes = "ok"
                THEN addCausalEdge(edges, causalEdgeOf(patterns2, entry1))
                ELSE edges
      raised == "raised" \in {skillRes, episodeRes, edgeRes}
  IN [patterns |-> patterns2,
      vectors |-> vectors1,
      skills |-> skills1,
      episodes |-> episodes1,
      edges |-> edges1,
      raised |-> raised,
      value |-> entry1,
      threw |-> {c \in threw :
                   \/ c = "createSkill" /\ skillTried
                   \/ c = "storeEpisode" /\ episodeTried
                   \/ c = "addCausalEdge" /\ edgeTried},
      used |-> {c \in {"skillLibrary", "reflexion", "causalGraph"} :
                  \/ c = "skillLibrary" /\ skillTried
                  \/ c = "reflexion" /\ episodeTried
                  \/ c = "causalGraph" /\ edgeTried}]

StorePatternBody(Pats, Outs, Faults) ==
  /\ BodyReady("storePattern")
  /\ \E pattern \in Pats, outcome \in Outs, threw \in Faults :
       LET r == storePattern(pattern, outcome, threw)
       IN /\ patterns' = r.patterns
          /\ vectors' = r.vectors
          /\ skills' = r.skills
          /\ episodes' = r.episodes
          /\ edges' = r.edges
          /\ ret' = [op |-> "storePattern", raised |-> r.raised,
                     value |-> r.value, threw |-> r.threw,
                     used |-> r.used,
                     ticket |-> Head(microtasks).ticket]
  /\ microtasks' = Tail(microtasks)
  /\ UNCHANGED <<init, initWaiters>>
  /\ UNCHANGED others

\* ------------------------------------------------------------ findSimilar

\* Backend, batchSimilarity: the cosine similarity of the query with every
\* stored vector, as its interface requires.
batchSimilarity(queryVector, vecs) ==
  [i \in 1..Len(vecs) |-> cosine(queryVector, vecs[i])]

\* Lines 161-167: one result per entry, with its similarity score.
resultsOf(pats, similarities) ==
  [idx \in 1..Len(pats) |->
     [pattern |-> pats[idx].pattern,
      outcome |-> pats[idx].outcome,
      success |-> pats[idx].success,
      similarity |-> similarities[idx]]]

\* Line 171: .filter(result => result.success)
keepSuccessful(results) == SelectSeq(results, LAMBDA r : r.success)

\* bySimilarity with its operands exchanged: ascending.
bySimilarityAscending(a, b) == SimCmp(a.similarity, b.similarity)

\* Line 172: the comparator (a, b) => b.similarity - a.similarity, as a sign.
bySimilarity(a, b) == SimCmp(b.similarity, a.similarity)

\* Where a stable sort puts x, which followed every element of sorted in
\* the input: behind the elements the comparator does not put after x.
RECURSIVE InsertStable(_, _)
InsertStable(sorted, x) ==
  IF sorted = <<>> THEN <<x>>
  ELSE IF bySimilarity(Last(sorted), x) <= 0
       THEN Append(sorted, x)
       ELSE Append(InsertStable(SubSeq(sorted, 1, Len(sorted) - 1), x),
                   Last(sorted))

\* Line 172: Array.prototype.sort, a stable sort.
RECURSIVE sortResults(_)
sortResults(results) ==
  IF results = <<>> THEN <<>>
  ELSE InsertStable(sortResults(SubSeq(results, 1, Len(results) - 1)),
                    results[Len(results)])

\* Line 173: .slice(0, k) for an integer k >= 0.
sliceK(results, k) == SubSeq(results, 1, Min(k, Len(results)))

\* vectorSearchAvailable without the test of _initialized.
vectorSearchAvailableUnflagged == "vectorSearch" \in components

\* Line 147: this._initialized && this.vectorSearch
vectorSearchAvailable == initialized /\ "vectorSearch" \in components

\* similaritiesAfterThrow with a catch that gives every entry the score 0.
similaritiesAfterThrowZero(queryVector, vecs) ==
  [i \in 1..Len(vecs) |-> [num |-> 0, den |-> 1]]

\* Lines 149-152: the catch of the batchSimilarity call.
similaritiesAfterThrow(queryVector, vecs) ==
  manualCosineSimilarity(queryVector, vecs)

\* The body of findSimilar, lines 139-173; batchThrows: the backend's
\* batchSimilarity throws when called.
findSimilar(currentPattern, k, batchThrows) ==
  LET queryVector == Float32ArrayFrom(patternToVector(currentPattern))
      similarities ==
        IF vectorSearchAvailable
        THEN IF batchThrows
             THEN similaritiesAfterThrow(queryVector, vectors)
             ELSE batchSimilarity(queryVector, vectors)
        ELSE manualCosineSimilarity(queryVector, vectors)
  IN IF Len(vectors) = 0
     THEN <<>>
     ELSE sliceK(sortResults(keepSuccessful(resultsOf(patterns, similarities))),
                 k)

\* FindSimilarBody with the stored arrays reversed in place by the query.
FindSimilarBodyReversingStore(Pats, ks, Faults) ==
  /\ BodyReady("findSimilar")
  /\ \E currentPattern \in Pats, k \in ks, batchThrows \in Faults :
       ret' = [op |-> "findSimilar", raised |-> FALSE,
               value |-> findSimilar(currentPattern, k, batchThrows),
               pattern |-> currentPattern, k |-> k,
               threw |-> batchThrows /\ vectorSearchAvailable
                         /\ Len(vectors) > 0,
               used |-> IF vectorSearchAvailable /\ Len(vectors) > 0
                        THEN {"vectorSearch"} ELSE {}]
  /\ patterns' = [i \in 1..Len(patterns) |-> patterns[Len(patterns) + 1 - i]]
  /\ vectors' = [i \in 1..Len(vectors) |-> vectors[Len(vectors) + 1 - i]]
  /\ microtasks' = Tail(microtasks)
  /\ UNCHANGED <<init, initWaiters, backend>>
  /\ UNCHANGED others

FindSimilarBody(Pats, ks, Faults) ==
  /\ BodyReady("findSimilar")
  /\ \E currentPattern \in Pats, k \in ks, batchThrows \in Faults :
       ret' = [op |-> "findSimilar", raised |-> FALSE,
               value |-> findSimilar(currentPattern, k, batchThrows),
               pattern |-> currentPattern, k |-> k,
               threw |-> batchThrows /\ vectorSearchAvailable
                         /\ Len(vectors) > 0,
               used |-> IF vectorSearchAvailable /\ Len(vectors) > 0
                        THEN {"vectorSearch"} ELSE {}]
  /\ microtasks' = Tail(microtasks)
  /\ UNCHANGED <<init, initWaiters, store, backend>>
  /\ UNCHANGED others

\* -------------------------------------------------------- getSelfCritique

\* taskTypeOf with the last step of the trajectory in place of the first.
taskTypeOfLastStep(trajectory) ==
  IF Len(trajectory) > 0 THEN trajectory[Len(trajectory)].action ELSE "unknown"

\* Line 200: the task type of a trajectory.
taskTypeOf(trajectory) ==
  IF Len(trajectory) > 0 THEN trajectory[1].action ELSE "unknown"

\* Backend, retrieveRelevant: the episodes with that task tag, in insertion
\* order, at most limit of them.
retrieveRelevant(eps, taskType, limit) ==
  LET found == SelectSeq(eps, LAMBDA e : e.task = taskType)
  IN SubSeq(found, 1, Min(limit, Len(found)))

\* The body of getSelfCritique, lines 200-220.
getSelfCritique(trajectory, retrieveThrows) ==
  LET taskType == taskTypeOf(trajectory)
  IN IF initialized /\ "reflexion" \in components
     THEN IF retrieveThrows
          THEN [episodes |-> <<>>,
                summary |-> <<"No episodes found for", taskType>>]
          ELSE LET found == retrieveRelevant(episodes, taskType, RetrieveLimit)
               IN [episodes |-> found,
                   summary |-> <<"Retrieved", Len(found), taskType>>]
     ELSE [episodes |-> <<>>,
           summary |-> <<"No episodes found for", taskType,
                         "(AgentDB not initialized)">>]

GetSelfCritiqueBody(Trajs, Faults) ==
  /\ BodyReady("getSelfCritique")
  /\ \E trajectory \in Trajs, retrieveThrows \in Faults :
       ret' = [op |-> "getSelfCritique", raised |-> FALSE,
               value |-> getSelfCritique(trajectory, retrieveThrows),
               trajectory |-> trajectory,
               threw |-> retrieveThrows /\ initialized
                         /\ "reflexion" \in components,
               used |-> IF initialized /\ "reflexion" \in components
                        THEN {"reflexion"} ELSE {}]
  /\ microtasks' = Tail(microtasks)
  /\ UNCHANGED <<init, initWaiters, store, backend>>
  /\ UNCHANGED others

\* ----------------------------------------------------- getCausalReasoning

\* Backend, queryCausalEffects: the edges that originate at id, in
\* insertion order.
queryCausalEffects(es, id) == SelectSeq(es, LAMBDA e : e.fromId = id)

\* Line 246: this.patterns.filter(p => p.action === action)
withAction(pats, action) == SelectSeq(pats, LAMBDA p : p.action = action)

\* lastMatching with the oldest matching entry in place of the newest.
firstMatching(matching) == matching[1]

\* Line 253: patterns[patterns.length - 1] of the matching entries.
lastMatching(matching) == matching[Len(matching)]

\* getCausalReasoning with the backend consulted before the check for an
\* empty selection: without a matching entry the lookup of the last one
\* fails inside the try.
getCausalReasoningBackendFirst(action, queryThrows) ==
  LET matching == withAction(patterns, action)
  IN IF initialized /\ "causalGraph" \in components
     THEN IF queryThrows \/ Len(matching) = 0
          THEN [action |-> action, causalPaths |-> <<>>,
                insight |-> <<"Error querying causal effects">>]
          ELSE LET effects ==
                     queryCausalEffects(edges, lastMatching(matching).id)
               IN [action |-> action, causalPaths |-> effects,
                   insight |-> <<"Found", Len(effects), action>>]
     ELSE [action |-> action, causalPaths |-> <<>>,
           insight |-> <<"Causal reasoning not available (AgentDB not initialized)">>]

\* The body of getCausalReasoning, lines 246-274.
getCausalReasoning(action, queryThrows) ==
  LET matching == withAction(patterns, action)
  IN IF Len(matching) = 0
     THEN [action |-> action, causalPaths |-> <<>>,
           insight |-> <<"No patterns found for this action">>]
     ELSE IF initialized /\ "causalGraph" \in components
     THEN IF queryThrows
          THEN [action |-> action, causalPaths |-> <<>>,
                insight |-> <<"Error querying causal effects">>]
          ELSE LET lastPattern == lastMatching(matching)
                   effects == queryCausalEffects(edges, lastPattern.id)
               IN [action |-> action, causalPaths |-> effects,
                   insight |-> <<"Found", Len(effects), action>>]
     ELSE [action |-> action, causalPaths |-> <<>>,
           insight |-> <<"Causal reasoning not available (AgentDB not initialized)">>]

GetCausalReasoningBody(Acts, Faults) ==
  /\ BodyReady("getCausalReasoning")
  /\ \E action \in Acts, queryThrows \in Faults :
       ret' = [op |-> "getCausalReasoning", raised |-> FALSE,
               value |-> getCausalReasoning(action, queryThrows),
               action |-> action,
               threw |-> queryThrows /\ initialized
                         /\ "causalGraph" \in components
                         /\ Len(withAction(patterns, action)) > 0,
               used |-> IF /\ initialized
                           /\ "causalGraph" \in components
                           /\ Len(withAction(patterns, action)) > 0
                        THEN {"causalGraph"} ELSE {}]
  /\ microtasks' = Tail(microtasks)
  /\ UNCHANGED <<init, initWaiters, store, backend>>
  /\ UNCHANGED others

\* ------------------------------------------------------- close, getSkills

\* The body of close, lines 299-301: db.close() is not inside a try, so an
\* exception of the backend leaves the method.  usedDb: the call was made.
CloseBody ==
  /\ BodyReady("close")
  /\ IF "db" \in components
     THEN \E closeThrows \in BOOLEAN :
            ret' = [op |-> "close", raised |-> closeThrows, usedDb |-> TRUE,
                    used |-> {"db"}]
     ELSE ret' = [op |-> "close", raised |-> FALSE, usedDb |-> FALSE,
                  used |-> {}]
  /\ microtasks' = Tail(microtasks)
  /\ UNCHANGED <<init, initWaiters, store, backend>>
  /\ UNCHANGED others

\* getSkills as the async method of lines 223-241 that the class body
\* defines first: the skills the backend's library holds, none without it.
getSkillsOfLibrary(pats) ==
  IF initialized /\ "skillLibrary" \in components
  THEN [i \in 1..Len(skills) |-> [name |-> skills[i], usageCount |-> 0]]
  ELSE <<>>

\* Lines 304-312: the synchronous getSkills, which as the later definition
\* of that name in the class body replaces the async one of lines 223-241.
getSkills(pats) ==
  LET successful == SelectSeq(pats, LAMBDA p : p.success)
  IN [i \in 1..Len(successful) |->
        [name |-> successful[i].pattern.action,
         pattern |-> successful[i].pattern]]

GetSkills ==
  /\ ret' = [op |-> "getSkills", raised |-> FALSE,
             value |-> getSkills(patterns), used |-> {}]
  /\ UNCHANGED <<init, initWaiters, microtasks, store, backend>>
  /\ UNCHANGED others

\* ------------------------------------------------------ StrategyVerifier
\* StrategyVerifier.js.  The Lean backend (lean-agentic) is outside the
\* repository: each of its calls is an await that resolves to a value of
\* the shape the code reads, or rejects with an Error.  The verifier's own
\* MemoryManager is seen through its storePattern call only: the call
\* returns once that instance's initialization has settled and never
\* raises (C5); no operation of the verifier reads what it stored.

\* The verifyStrategy calls made in one run.
MaxVerifies == 2

\* historicalData, each trade by its outcome: no trade, two wins, one win
\* in three with a loss of 30% (win rate too low, drawdown too deep).
Histories == {<<>>, <<100, 50>>, <<-100, -30000, 100>>}

\* A number as a fraction with den >= 0; den = 0 is NaN or Infinity,
\* for which < and > are both false.
Frac(n, d) == [num |-> n, den |-> d]

Less(a, b) == a.den # 0 /\ b.den # 0 /\ a.num * b.den < b.num * a.den

Abs(x) == IF x < 0 THEN -x ELSE x

\* this.rules: lines 6-10.
rules == [maxDrawdown |-> Frac(25, 100),
          riskPerTrade |-> Frac(2, 100),
          minWinRate |-> Frac(4, 10)]

\* calculateMetrics: lines 279-290.  Without a trade winRate is 0/0 and
\* Math.min() is Infinity.
calculateMetrics(data) ==
  LET wins == Cardinality({i \in 1..Len(data) : data[i] > 0})
      losses == Cardinality({i \in 1..Len(data) : data[i] <= 0})
      maxLoss == CHOOSE m \in {data[i] : i \in 1..Len(data)} :
                   \A i \in 1..Len(data) : m <= data[i]
  IN  [winRate |-> Frac(wins, wins + losses),
       maxDrawdown |-> IF data = <<>> THEN Frac(1, 0)
                       ELSE Frac(Abs(maxLoss), 100000),
       avgRisk |-> Frac(15, 1000),
       totalTrades |-> Len(data)]

\* A property's value in a proof record: the boolean the simulation
\* computes, or the object _verifyProperty returns.
Boolean(b) == [type |-> "boolean", value |-> b]
PropertyObject(holds) == [type |-> "object", valid |-> holds]

\* `p` used as a condition: an object is truthy.
truthy(p) == IF p.type = "boolean" THEN p.value ELSE TRUE

\* `p.valid` used as a condition: a boolean has no such property, and
\* undefined is falsy.
validOf(p) == IF p.type = "object" THEN p.valid ELSE FALSE

Properties == {"drawdown", "risk", "winRate"}

\* The comparison of one property: lines 205-209, and the fallback of
\* _verifyProperty, lines 257-265, with the operator and the operands of
\* lines 111-128.
compare(property, metrics) ==
  CASE property = "drawdown" -> Less(metrics.maxDrawdown, rules.maxDrawdown)
    [] property = "risk" -> Less(metrics.avgRisk, rules.riskPerTrade)
    [] property = "winRate" -> Less(rules.minWinRate, metrics.winRate)

\* this.proofs.push(...): lines 150-158 and 212-220.
pushProofDropped(trail, record) == trail

pushProof(trail, record) == Append(trail, record)

\* The record _verifyWithSimulation pushes: lines 194-220.
simulationRecord(metrics) ==
  [theorem |-> "strategy_safety",
   proofs |-> [p \in Properties |-> Boolean(compare(p, metrics))],
   metrics |-> metrics,
   signature |-> "null",
   leanProof |-> "null"]

\* What _verifyWithSimulation returns: lines 222-230.
simulationResult(metrics) ==
  LET proofsOf == simulationRecord(metrics).proofs
      isValid == \A p \in Properties : truthy(proofsOf[p])
  IN  [valid |-> isValid,
       recommendation |-> IF isValid THEN "SAFE" ELSE "RISKY",
       method |-> "simulation"]

\* The record _verifyWithLean pushes: lines 150-158.
leanRecord(call) ==
  [theorem |-> "StrategySafety",
   proofs |-> call.proofs,
   metrics |-> call.metrics,
   signature |-> "signature",
   leanProof |-> "proof"]

\* What _verifyWithLean returns: lines 160-175.
leanResult(call) ==
  LET isValid == call.proofValid /\ \A p \in Properties : validOf(call.proofs[p])
  IN  [valid |-> isValid,
       recommendation |-> IF isValid THEN "SAFE" ELSE "RISKY",
       method |-> "lean4_formal_verification"]

\* getProofHistory: lines 292-303.
getProofHistory(trail) ==
  [i \in 1..Len(trail) |->
     [theorem |-> trail[i].theorem,
      valid |-> \A p \in Properties : validOf(trail[i].proofs[p]),
      metrics |-> trail[i].metrics,
      signature |-> trail[i].signature,
      hasLeanProof |-> trail[i].leanProof # "null"]]

\* A call's locals before any Lean step.  The code keeps neither `path`,
\* the way the call takes ("lean", "simulation" from the start, or
\* "fallback" from Lean to simulation), nor `record`, the index of the
\* record the call pushed (0: none yet).
newCall(data, path) ==
  [pc |-> "defineTheorem", path |-> path, metrics |-> calculateMetrics(data),
   proofValid |-> FALSE, proofs |-> [p \in Properties |-> Boolean(FALSE)],
   record |-> 0, result |-> NoRet]

Calls == 1..Len(verifications)

At_pc(c, pc) == c \in Calls /\ verifications[c].pc = pc

\* _initializeLean settles: lines 21-49.  The import or the constructor
\* throws; or connectMemory throws, which needs memory.db; or nothing does.
InitializeLeanSettle(outcome) ==
  /\ leanInit = "pending"
  /\ outcome = "connectThrows" => memoryInit = "settled"
  /\ leanInit' = "settled"
  /\ lean' = (outcome # "importThrows")
  /\ leanAvailable' = (outcome = "available")
  /\ ret' = NoRet
  /\ UNCHANGED <<memoryInit, proofs, verifications>>
  /\ UNCHANGED <<memory, analyzer>>

\* The _initPromise of the verifier's MemoryManager settles.
MemoryInitSettle ==
  /\ memoryInit = "pending"
  /\ memoryInit' = "settled"
  /\ ret' = NoRet
  /\ UNCHANGED <<lean, leanAvailable, leanInit, proofs, verifications>>
  /\ UNCHANGED <<memory, analyzer>>

\* _verifyWithSimulation up to its return, run by call c (a new call when
\* c is one more than the calls so far): lines 190-231.  The locals of
\* the Lean path are dead from here on.
Simulate(c, call) ==
  LET done == [call EXCEPT !.pc = "return",
                           !.path = IF c \in Calls THEN "fallback" ELSE @,
                           !.proofValid = FALSE,
                           !.proofs = simulationRecord(call.metrics).proofs,
                           !.record = Len(proofs) + 1,
                           !.result = simulationResult(call.metrics)]
  IN  /\ proofs' = pushProof(proofs, simulationRecord(call.metrics))
      /\ verifications' =
           IF c \in Calls THEN [verifications EXCEPT ![c] = done]
           ELSE Append(verifications, done)

\* verifyStrategy up to its first await: lines 51-69 (Lean mode), or
\* lines 51-63 and the whole of _verifyWithSimulation.
VerifyStrategy(data) ==
  /\ Len(verifications) < MaxVerifies
  /\ IF leanAvailable /\ lean
       THEN /\ verifications' =
                 Append(verifications, newCall(data, "lean"))
            /\ UNCHANGED proofs
       ELSE Simulate(Len(verifications) + 1, newCall(data, "simulation"))
  /\ ret' = NoRet
  /\ UNCHANGED <<lean, leanAvailable, leanInit, memoryInit>>
  /\ UNCHANGED <<memory, analyzer>>

\* A Lean call of call c settles: it rejects, and the catch of lines
\* 177-187 falls back to simulation, or it resolves and the call goes on
\* to its next await.
LeanStep(c, pc, throws, next) ==
  /\ At_pc(c, pc)
  /\ IF throws
       THEN Simulate(c, verifications[c])
       ELSE /\ verifications' = [verifications EXCEPT ![c] = next]
            /\ UNCHANGED proofs
  /\ ret' = NoRet
  /\ UNCHANGED <<lean, leanAvailable, leanInit, memoryInit>>
  /\ UNCHANGED <<memory, analyzer>>

\* lean.defineTheorem: line 69.
DefineTheoremSettle(c, throws) ==
  LeanStep(c, "defineTheorem", throws,
           [verifications[c] EXCEPT !.pc = "prove"])

\* lean.prove: line 102.
ProveSettle(c, throws, valid) ==
  LeanStep(c, "prove", throws,
           [verifications[c] EXCEPT !.pc = "drawdown", !.proofValid = valid])

\* The property after p in lines 110-129, then lean.sign.
afterProperty(p) ==
  CASE p = "drawdown" -> "risk"
    [] p = "risk" -> "winRate"
    [] p = "winRate" -> "sign"

\* _verifyProperty: lines 233-277.  lean.verify resolves, or it rejects
\* and the property is compared here; neither way does the call leave
\* _verifyWithLean.
VerifyPropertySettle(c, p, throws, holds) ==
  /\ At_pc(c, p)
  /\ verifications' =
       [verifications EXCEPT
          ![c].pc = afterProperty(p),
          ![c].proofs[p] =
             IF throws
               THEN PropertyObject(compare(p, verifications[c].metrics))
               ELSE PropertyObject(holds)]
  /\ ret' = NoRet
  /\ UNCHANGED <<lean, leanAvailable, leanInit, memoryInit, proofs>>
  /\ UNCHANGED <<memory, analyzer>>

\* lean.sign: line 132.
SignSettle(c, throws) ==
  LeanStep(c, "sign", throws,
           [verifications[c] EXCEPT !.pc = "storePattern"])

\* memory.storePattern returns, and _verifyWithLean runs to its return:
\* lines 141-175.
StorePatternSettle(c) ==
  /\ At_pc(c, "storePattern")
  /\ memoryInit = "settled"
  /\ proofs' = pushProof(proofs, leanRecord(verifications[c]))
  /\ verifications' =
       [verifications EXCEPT ![c].pc = "return",
                             ![c].record = Len(proofs) + 1,
                             ![c].result = leanResult(verifications[c])]
  /\ ret' = NoRet
  /\ UNCHANGED <<lean, leanAvailable, leanInit, memoryInit>>
  /\ UNCHANGED <<memory, analyzer>>

\* The caller of verifyStrategy resumes with the result.
VerifyReturn(c) ==
  /\ At_pc(c, "return")
  /\ verifications' = [verifications EXCEPT ![c].pc = "done"]
  /\ ret' = [op |-> "verifyStrategy", raised |-> FALSE,
             value |-> verifications[c].result, call |-> c]
  /\ UNCHANGED <<lean, leanAvailable, leanInit, memoryInit, proofs>>
  /\ UNCHANGED <<memory, analyzer>>

\* getProofHistory: lines 292-303; it has no await.
GetProofHistory ==
  /\ ret' = [op |-> "getProofHistory", raised |-> FALSE,
             value |-> getProofHistory(proofs)]
  /\ UNCHANGED <<verifier, memory, analyzer>>

\* ------------------------------------------------------ TemporalAnalyzer
\* TemporalAnalyzer.js.  The Midstreamer backend is outside the
\* repository: each of its calls is an await that resolves or rejects.

\* The analyzePattern calls made in one run.
MaxAnalyses == 3

\* data: a rising and a falling series.
Series == {<<1, 2>>, <<2, 1>>}

\* The keys of trendPatterns, upper-cased: lines 50-64.
Trends == {"UPWARD", "DOWNWARD", "SIDEWAYS"}

\* _fallbackTrend: lines 73-76.  Of no element, undefined > undefined is
\* false.
fallbackTrend(data) ==
  IF data # <<>> /\ data[Len(data)] > data[1] THEN "UPWARD" ELSE "DOWNWARD"

\* `${analysis.trend}_${analysis.cycles.detected}`: line 236.
patternKey(trend, detected) ==
  trend \o "_" \o (IF detected THEN "true" ELSE "false")

\* this.metaPatterns.get(patternKey)?.count || 0: line 238.
countOf(map, key) == IF key \in DOMAIN map THEN map[key].count ELSE 0

\* this.metaPatterns.set(patternKey, {count: ... + 1, lastSeen, analysis}):
\* lines 237-246.  lastSeen is a clock reading, and of the analysis the
\* trend and cyclesDetected are kept here.
metaPatternsSetRestarting(map, trend, detected) ==
  [k \in DOMAIN map \cup {patternKey(trend, detected)} |->
     IF k = patternKey(trend, detected)
       THEN [count |-> 1,
             analysis |-> [trend |-> trend, cyclesDetected |-> detected]]
       ELSE map[k]]

metaPatternsSet(map, trend, detected) ==
  [k \in DOMAIN map \cup {patternKey(trend, detected)} |->
     IF k = patternKey(trend, detected)
       THEN [count |-> countOf(map, k) + 1,
             analysis |-> [trend |-> trend, cyclesDetected |-> detected]]
       ELSE map[k]]

\* getMetaPatterns: lines 209-215.
getMetaPatterns(map) ==
  {[pattern |-> k, count |-> map[k].count] : k \in DOMAIN map}

Analyses == 1..Len(analyses)

Analysing(c, pc) == c \in Analyses /\ analyses[c].pc = pc

\* _initialize settles: lines 16-37.  The import or the constructor of
\* Midstreamer throws, or neither does.
AnalyzerInitSettle(ok) ==
  /\ analyzerInitPromise = "pending"
  /\ analyzerInitPromise' = "fulfilled"
  /\ midstream' = ok
  /\ analyzerInitialized' = ok
  /\ ret' = NoRet
  /\ UNCHANGED <<metaPatterns, analyses>>
  /\ UNCHANGED <<memory, verifier>>

\* analyzePattern up to its first await: lines 164-165.  A call keeps its
\* data and, once computed, its trend and cycles.detected; learnThrew,
\* whether its midstream.metaLearn threw, is kept by the model only.
AnalyzePattern(data) ==
  /\ Len(analyses) < MaxAnalyses
  /\ analyses' = Append(analyses, [pc |-> "ensure", data |-> data,
                                   trend |-> "", detected |-> FALSE,
                                   learnThrew |-> FALSE])
  /\ ret' = NoRet
  /\ UNCHANGED <<midstream, analyzerInitialized, analyzerInitPromise,
                 metaPatterns>>
  /\ UNCHANGED <<memory, verifier>>

\* _ensureInitialized returns to call c, which starts its five analyses
\* and awaits them all: lines 39-43 and 169-175.
AnalyzerEnsureResume(c) ==
  /\ Analysing(c, "ensure")
  /\ analyzerInitPromise = "fulfilled"
  /\ analyses' = [analyses EXCEPT ![c].pc = "all"]
  /\ ret' = NoRet
  /\ UNCHANGED <<midstream, analyzerInitialized, analyzerInitPromise,
                 metaPatterns>>
  /\ UNCHANGED <<memory, verifier>>

\* calculateTrend: lines 45-71.  The backend's distances pick the trend
\* unless one of its calls throws.
calculateTrend(data, backendTrend, throws) ==
  IF analyzerInitialized /\ midstream /\ ~throws
    THEN backendTrend ELSE fallbackTrend(data)

\* detectCycles(...).detected: lines 112-137.
detectCycles(backendDetected, throws) ==
  analyzerInitialized /\ midstream /\ ~throws /\ backendDetected

\* _metaLearn after its await, if any: lines 236-246.
MetaLearned(c, call) ==
  /\ metaPatterns' = metaPatternsSet(metaPatterns, call.trend, call.detected)
  /\ analyses' = [analyses EXCEPT ![c] = [call EXCEPT !.pc = "return"]]

\* Promise.all resolves for call c: lines 169-179.  The five analyses
\* write nothing and each catches what the backend throws; the trend and
\* cycles.detected are the two results _metaLearn reads.  Initialized,
\* the call enters _metaLearn, which awaits midstream.metaLearn (lines
\* 217-230).
AllSettle(c, backendTrend, trendThrows, backendDetected, cyclesThrow) ==
  /\ Analysing(c, "all")
  /\ LET call == [analyses[c] EXCEPT
                    !.trend = calculateTrend(analyses[c].data, backendTrend,
                                             trendThrows),
                    !.detected = detectCycles(backendDetected, cyclesThrow)]
     IN  IF analyzerInitialized
           THEN IF analyzerInitialized /\ midstream
                  THEN /\ analyses' =
                            [analyses EXCEPT ![c] =
                               [call EXCEPT !.pc = "metaLearn"]]
                       /\ UNCHANGED metaPatterns
                  ELSE MetaLearned(c, call)
           ELSE /\ analyses' =
                     [analyses EXCEPT ![c] = [call EXCEPT !.pc = "return"]]
                /\ UNCHANGED metaPatterns
  /\ ret' = NoRet
  /\ UNCHANGED <<midstream, analyzerInitialized, analyzerInitPromise>>
  /\ UNCHANGED <<memory, verifier>>

\* midstream.metaLearn settles for call c; a rejection is caught: lines
\* 219-234.  Then the counter of the key is set.
MetaLearnSettle(c, throws) ==
  /\ Analysing(c, "metaLearn")
  /\ MetaLearned(c, [analyses[c] EXCEPT !.learnThrew = throws])
  /\ ret' = NoRet
  /\ UNCHANGED <<midstream, analyzerInitialized, analyzerInitPromise>>
  /\ UNCHANGED <<memory, verifier>>

\* analyzePattern returns to its caller: lines 181-188.
AnalyzeReturn(c) ==
  /\ Analysing(c, "return")
  /\ analyses' = [analyses EXCEPT ![c].pc = "done"]
  /\ ret' = [op |-> "analyzePattern", raised |-> FALSE,
             value |-> [trend |-> analyses[c].trend,
                        cycles |-> [detected |-> analyses[c].detected]],
             call |-> c]
  /\ UNCHANGED <<midstream, analyzerInitialized, analyzerInitPromise,
                 metaPatterns>>
  /\ UNCHANGED <<memory, verifier>>

\* getMetaPatterns: lines 209-215; it has no await.
GetMetaPatterns ==
  /\ ret' = [op |-> "getMetaPatterns", raised |-> FALSE,
             value |-> getMetaPatterns(metaPatterns)]
  /\ UNCHANGED <<analyzer, memory, verifier>>

\* ----------------------------------------------------- the specifications

\* Where _initialize may stop: the import fails (no component), the third
\* constructor throws (db and vectorSearch are set), or nothing fails.
InitBuilt == {0, 2, Len(ComponentOrder)}

AllFaults == SUBSET StoreCalls
\* Every backend call of a storePattern works, or every one throws.
AllOrNone == {{}, StoreCalls}

\* The whole store: every operation, every backend fault, overlapping
\* calls; two patterns and two outcomes.
Microtask ==
  \/ EnsureResume
  \/ StorePatternBody({PatBuyA, PatSell}, {-5, 10}, AllOrNone)
  \/ FindSimilarBody({PatBuyA}, {1, DefaultK}, BOOLEAN)
  \/ GetSelfCritiqueBody({<<>>, <<[action |-> "buy"]>>}, BOOLEAN)
  \/ GetCausalReasoningBody({"buy", "sell"}, BOOLEAN)
  \/ CloseBody

Next ==
  \/ InitSettle(InitBuilt)
  \/ \E op \in AsyncOps : Invoke(op, MaxInflight)
  \/ Microtask
  \/ GetSkills

Spec == Init /\ [][Next]_vars

\* Ingestion and the queries on the backend's records, by a client that
\* awaits each call: every combination of backend faults.
NextIngest ==
  \/ InitSettle(InitBuilt)
  \/ \E op \in {"storePattern", "getCausalReasoning", "getSelfCritique"} :
       Invoke(op, SeqInflight)
  \/ EnsureResume
  \/ StorePatternBody({PatBuyA, PatSell}, {-5, 10}, AllFaults)
  \/ GetSelfCritiqueBody(Trajectories, BOOLEAN)
  \/ GetCausalReasoningBody(Actions, BOOLEAN)

SpecIngest == Init /\ [][NextIngest]_vars

\* Ingestion without backend faults and the similarity query, by a client
\* that awaits each call: every pattern as the query, every k.
NextQuery ==
  \/ InitSettle({0, Len(ComponentOrder)})
  \/ \E op \in {"storePattern", "findSimilar"} : Invoke(op, SeqInflight)
  \/ EnsureResume
  \/ StorePatternBody({PatBuyA, PatBuyB, PatSell, PatHold}, {0, 10}, {{}})
  \/ FindSimilarBody(Patterns, Ks, BOOLEAN)

SpecQuery == Init /\ [][NextQuery]_vars

\* The encoder on every pattern, the one outside the vocabulary included:
\* successful ingestion and the similarity query, by a client that awaits
\* each call.
NextEncode ==
  \/ InitSettle({0, Len(ComponentOrder)})
  \/ \E op \in {"storePattern", "findSimilar"} : Invoke(op, SeqInflight)
  \/ EnsureResume
  \/ StorePatternBody(Patterns, {10}, {{}})
  \/ FindSimilarBody(Patterns, {DefaultK}, BOOLEAN)

SpecEncode == Init /\ [][NextEncode]_vars

\* A burst: the client issues its storePattern calls, up to MaxPatterns of
\* them, while the initialization is pending, and none later; a query may
\* be issued at any time.
NextBurst ==
  \/ InitSettle(InitBuilt)
  \/ initPromise = "pending" /\ Invoke("storePattern", MaxPatterns)
  \/ Invoke("getCausalReasoning", MaxPatterns)
  \/ EnsureResume
  \/ StorePatternBody({PatBuyA, PatSell}, {-5, 10}, AllOrNone)
  \/ GetCausalReasoningBody({"buy"}, {FALSE})

SpecBurst == Init /\ [][NextBurst]_vars

\* Overlapping storePattern calls alone, with the fairness the event loop
\* gives: every queued microtask runs.  Nothing in the code makes the import
\* of _initialize settle (it has no timeout), so InitSettle gets none.
StoreMicrotask ==
  \/ EnsureResume
  \/ StorePatternBody({PatBuyA, PatSell}, {-5, 10}, AllOrNone)

NextStore ==
  \/ InitSettle(InitBuilt)
  \/ Invoke("storePattern", MaxInflight)
  \/ StoreMicrotask

LiveStore == Init /\ [][NextStore]_vars /\ WF_vars(StoreMicrotask)

\* LiveStore with an import that does settle.
LiveStoreSettling == LiveStore /\ WF_vars(InitSettle(InitBuilt))

\* The verifier: both initializations settle at any time, calls overlap,
\* every Lean call may reject.
NextVerifier ==
  \/ \E outcome \in {"importThrows", "connectThrows", "available"} :
       InitializeLeanSettle(outcome)
  \/ MemoryInitSettle
  \/ \E data \in Histories : VerifyStrategy(data)
  \/ \E c \in Calls, throws \in BOOLEAN : DefineTheoremSettle(c, throws)
  \/ \E c \in Calls, throws, valid \in BOOLEAN : ProveSettle(c, throws, valid)
  \/ \E c \in Calls, p \in Properties, throws, holds \in BOOLEAN :
       VerifyPropertySettle(c, p, throws, holds)
  \/ \E c \in Calls, throws \in BOOLEAN : SignSettle(c, throws)
  \/ \E c \in Calls : StorePatternSettle(c)
  \/ \E c \in Calls : VerifyReturn(c)
  \/ GetProofHistory

SpecVerifier == Init /\ [][NextVerifier]_vars

\* The analyzer: the initialization settles either way at any time, calls
\* overlap, every backend call may throw.
NextAnalyzer ==
  \/ \E ok \in BOOLEAN : AnalyzerInitSettle(ok)
  \/ \E data \in Series : AnalyzePattern(data)
  \/ \E c \in Analyses : AnalyzerEnsureResume(c)
  \/ \E c \in Analyses, backendTrend \in Trends,
        trendThrows, backendDetected, cyclesThrow \in BOOLEAN :
       AllSettle(c, backendTrend, trendThrows, backendDetected, cyclesThrow)
  \/ \E c \in Analyses, throws \in BOOLEAN : MetaLearnSettle(c, throws)
  \/ \E c \in Analyses : AnalyzeReturn(c)
  \/ GetMetaPatterns

SpecAnalyzer == Init /\ [][NextAnalyzer]_vars

\* ------------------------------------------------------------ the claims

\* The backend with its causal graph is in use.
CausalGraphUp == initialized /\ "causalGraph" \in components
\* The backend with its reflexion memory is in use.
ReflexionUp == initialized /\ "reflexion" \in components

\* The step is the body of a storePattern call.
StorePatternStep ==
  BodyReady("storePattern") /\ microtasks' = Tail(microtasks)

\* C1: the n-th entry ingested, counting from 0, carries id n, so the ids of
\* the stored set are 0..N-1 in insertion order; the entry a storePattern
\* call returns carries the id of the newest entry.
C1_DenseIds ==
  /\ \A i \in 1..Len(patterns) : patterns[i].id = i - 1
  /\ ret.op = "storePattern" => ret.value.id = Len(patterns) - 1

\* Three entries are stored while another call is suspended at its await.
C1_Witness ==
  /\ ret.op = "storePattern"
  /\ Len(patterns) = 3
  /\ patterns[3].id = 2
  /\ Len(Inflight) > 0

\* The edges recorded for the entry a storePattern call just returned.
EdgesToReturned == SelectSeq(edges, LAMBDA e : e.toId = ret.value.id)

\* The edge the claim expects for the entry just returned, whose
\* predecessor is the entry stored before it.
ExpectedEdge ==
  [fromId |-> ret.value.id - 1,
   toId |-> ret.value.id,
   deltaOutcome |-> ret.value.outcome - patterns[ret.value.id].outcome,
   confidence |-> ConfidenceTenths,
   weight |-> EdgeWeight]

C3_CausalChain ==
  /\ \A i \in 1..Len(edges) :
       /\ edges[i].fromId >= 0
       /\ edges[i].toId = edges[i].fromId + 1
       /\ edges[i].toId <= Len(patterns) - 1
  /\ \A i, j \in 1..Len(edges) : i # j => edges[i] # edges[j]
  /\ \A id \in 0..(Len(patterns) - 1) :
       Len(queryCausalEffects(edges, id)) <= 1
  /\ Len(patterns) > 0 =>
       queryCausalEffects(edges, Len(patterns) - 1) = <<>>

\* Three entries with both edges of the chain.
C3_Witness ==
  /\ Len(patterns) = 3
  /\ Len(edges) = 2
  /\ Len(queryCausalEffects(edges, 0)) = 1
  /\ Len(queryCausalEffects(edges, 1)) = 1

C5_StoreNeverFails ==
  [][StorePatternStep =>
       /\ ret'.op = "storePattern"
       /\ ~ret'.raised
       /\ Len(patterns') = Len(patterns) + 1
       /\ Len(vectors') = Len(vectors) + 1
       /\ SubSeq(patterns', 1, Len(patterns)) = patterns
       /\ SubSeq(vectors', 1, Len(vectors)) = vectors
       /\ ret'.value = patterns'[Len(patterns')]]_vars

\* A storePattern call returned although createSkill, storeEpisode and
\* addCausalEdge all threw.
C5_Witness ==
  /\ ret.op = "storePattern"
  /\ ~ret.raised
  /\ ret.threw = StoreCalls
  /\ ret.value = patterns[Len(patterns)]

\* C6: once storePattern is called, the entry is eventually appended and
\* the call returns, also when the backend's initialization never settles.
C6_StoreEventuallyReturns ==
  (StoresInflight > 0) ~> (ret.op = "storePattern" /\ ~ret.raised)

\* C7: findSimilar returns no entry whose stored outcome is <= 0: every
\* result is an entry that was ingested with an outcome > 0.
C7_OnlySuccessful ==
  ret.op = "findSimilar" =>
    \A i \in 1..Len(ret.value) :
      /\ ret.value[i].outcome > 0
      /\ \E j \in 1..Len(patterns) :
           /\ patterns[j].pattern = ret.value[i].pattern
           /\ patterns[j].outcome = ret.value[i].outcome

\* Of three entries the second has outcome 0, and findSimilar returns the
\* other two.
C7_Witness ==
  /\ ret.op = "findSimilar"
  /\ Len(patterns) = 3
  /\ patterns[1].outcome > 0
  /\ patterns[2].outcome = 0
  /\ patterns[3].outcome > 0
  /\ Len(ret.value) = 2

\* The reference ranking for the query of the findSimilar call that just
\* returned: the stored entries with outcome > 0; an entry comes after those
\* of higher similarity and after the earlier ones of equal similarity.
RefQuery == Float32ArrayFrom(patternToVector(ret.pattern))
RefScore(i) == cosine(RefQuery, vectors[i])
RefSuccessful == {i \in 1..Len(patterns) : patterns[i].outcome > 0}
RefRank(i) ==
  Cardinality({j \in RefSuccessful :
                 \/ SimCmp(RefScore(j), RefScore(i)) > 0
                 \/ SimCmp(RefScore(j), RefScore(i)) = 0 /\ j < i})

\* C8: findSimilar(pattern, k) returns the first min(k, number of
\* successful entries) elements of the reference ranking.
C8_TopKOfRanking ==
  ret.op = "findSimilar" =>
    /\ Len(ret.value) = Min(ret.k, Cardinality(RefSuccessful))
    /\ \A i \in RefSuccessful :
         RefRank(i) < Len(ret.value) =>
           /\ ret.value[RefRank(i) + 1].pattern = patterns[i].pattern
           /\ ret.value[RefRank(i) + 1].outcome = patterns[i].outcome
           /\ SimCmp(ret.value[RefRank(i) + 1].similarity, RefScore(i)) = 0

\* Three successful entries, k = 2: the newest entry ranks first, ahead of
\* two entries of equal, lower similarity, of which the earlier is returned.
C8_Witness ==
  /\ ret.op = "findSimilar"
  /\ ret.k = 2
  /\ Len(patterns) = 3
  /\ Cardinality(RefSuccessful) = 3
  /\ SimCmp(RefScore(3), RefScore(1)) > 0
  /\ SimCmp(RefScore(1), RefScore(2)) = 0
  /\ patterns[1].pattern # patterns[2].pattern
  /\ Len(ret.value) = 2
  /\ ret.value[1].pattern = patterns[3].pattern
  /\ ret.value[2].pattern = patterns[1].pattern

\* The index of the most recently stored entry with the action of the
\* getCausalReasoning call that just returned.
NewestWithAction ==
  CHOOSE i \in 1..Len(patterns) :
    /\ patterns[i].action = ret.action
    /\ \A j \in (i + 1)..Len(patterns) : patterns[j].action # ret.action

\* The edges that originate at the id of that entry.
EdgesFromNewest ==
  SelectSeq(edges, LAMBDA e : e.fromId = patterns[NewestWithAction].id)

SomeWithAction == \E i \in 1..Len(patterns) : patterns[i].action = ret.action

ReturnedTag ==
  IF ret.trajectory = <<>> THEN "unknown" ELSE ret.trajectory[1].action

\* The first limit elements of a sequence.
FirstN(seq, limit) == SubSeq(seq, 1, Min(limit, Len(seq)))

\* The ids of the episodes getSelfCritique returned.
ReturnedSessions ==
  [i \in 1..Len(ret.value.episodes) |-> ret.value.episodes[i].session]

\* The ids of the ingested entries with the tag as their action.
IngestedWithTag ==
  LET tagged == SelectSeq(patterns, LAMBDA p : p.action = ReturnedTag)
  IN [i \in 1..Len(tagged) |-> tagged[i].id]

\* The ids of the episodes the backend holds under the tag.
RecordedWithTag ==
  LET tagged == SelectSeq(episodes, LAMBDA e : e.task = ReturnedTag)
  IN [i \in 1..Len(tagged) |-> tagged[i].session]

C11_EmptyStoreQueries ==
  patterns = <<>> =>
    /\ ret.op = "findSimilar" => ~ret.raised /\ ret.value = <<>>
    /\ ret.op = "getCausalReasoning" =>
         /\ ~ret.raised
         /\ ret.value.causalPaths = <<>>
         /\ ret.value.insight = <<"No patterns found for this action">>
    /\ ret.op = "getSelfCritique" => ~ret.raised /\ ret.value.episodes = <<>>
    /\ ret.op = "getSkills" => ~ret.raised /\ ret.value = <<>>

\* getCausalReasoning returns on an empty store whose backend is in use.
C11_Witness ==
  /\ patterns = <<>>
  /\ CausalGraphUp
  /\ ret.op = "getCausalReasoning"
  /\ ret.value.causalPaths = <<>>

\* C12: a findSimilar call leaves the stored set as it is and returns what
\* the findSimilar call with the same pattern and k that returned in the
\* step before it returned; and the same call made again from the state it
\* leaves returns the same ordered result, whether or not the backend's
\* batchSimilarity throws.
C12_FindSimilarIdempotent ==
  /\ [](ret.op = "findSimilar" =>
          \A batchThrows \in BOOLEAN :
            findSimilar(ret.pattern, ret.k, batchThrows) = ret.value)
  /\ [][ret'.op = "findSimilar" =>
          /\ patterns' = patterns
          /\ vectors' = vectors
          /\ (ret.op = "findSimilar" /\ ret.pattern = ret'.pattern
                 /\ ret.k = ret'.k)
               => ret'.value = ret.value]_vars

\* Between two findSimilar calls: one has returned a result of the backend
\* and the body of the next is the next microtask.
C12_Witness ==
  /\ ret.op = "findSimilar"
  /\ ~ret.threw
  /\ initialized /\ "vectorSearch" \in components
  /\ Len(patterns) = 3
  /\ Len(ret.value) >= 1
  /\ microtasks # <<>>
  /\ Head(microtasks).op = "findSimilar"
  /\ Head(microtasks).stage = "body"

\* The store an instance without backend holds after the ingestion that
\* produced the current one: the same patterns and outcomes in the same
\* order, no skill id.
NoBackendPatterns ==
  [i \in 1..Len(patterns) |->
     [pattern |-> patterns[i].pattern,
      outcome |-> patterns[i].outcome,
      success |-> patterns[i].outcome > 0,
      action |-> patterns[i].pattern.action,
      id |-> i - 1,
      skillId |-> 0]]

NoBackendVectors ==
  [i \in 1..Len(patterns) |->
     Float32ArrayFrom(patternToVector(patterns[i].pattern))]

\* What findSimilar returns on that instance: the in-memory cosine path.
NoBackendFindSimilar(currentPattern, k) ==
  LET queryVector == Float32ArrayFrom(patternToVector(currentPattern))
      similarities == manualCosineSimilarity(queryVector, NoBackendVectors)
  IN IF Len(NoBackendVectors) = 0
     THEN <<>>
     ELSE sliceK(sortResults(keepSuccessful(
                   resultsOf(NoBackendPatterns, similarities))), k)

\* C13: a findSimilar call whose batchSimilarity call throws raises nothing
\* and returns the ordered result that findSimilar returns on an instance
\* without backend after the same ingestion.
C13_DegradedModeTransparent ==
  (ret.op = "findSimilar" /\ ret.threw) =>
    /\ ~ret.raised
    /\ ret.value = NoBackendFindSimilar(ret.pattern, ret.k)

\* batchSimilarity threw, and the result ranks the newest of three entries
\* before an older one of lower similarity.
C13_Witness ==
  /\ ret.op = "findSimilar"
  /\ ret.threw
  /\ Len(patterns) = 3
  /\ Len(ret.value) >= 2
  /\ ret.value[1].pattern = patterns[3].pattern
  /\ ret.value[2].pattern = patterns[1].pattern
  /\ SimCmp(ret.value[1].similarity, ret.value[2].similarity) > 0

\* C14: in every state the vector index and the entry log correspond one to
\* one: as many vectors as entries, vectors[i] the encoding of
\* patterns[i].pattern, every vector of exactly 128 dimensions.
C14_VectorPerEntry ==
  /\ Len(vectors) = Len(patterns)
  /\ \A i \in 1..Len(patterns) :
       /\ vectors[i].length = D
       /\ DOMAIN vectors[i].nz \subseteq 1..D
       /\ vectors[i] = Float32ArrayFrom(patternToVector(patterns[i].pattern))

\* Three entries of two different patterns are stored and the body of
\* another call is about to run.
C14_Witness ==
  /\ Len(patterns) = 3
  /\ patterns[1].pattern # patterns[2].pattern
  /\ vectors[1] # vectors[2]
  /\ vectors[3].length = D
  /\ microtasks # <<>>
  /\ Head(microtasks).stage = "body"

\* C15: the stored set is append-only.  Every step leaves the entries and
\* vectors already stored as and where they are; the body of storePattern
\* adds exactly one entry and one vector; findSimilar, getCausalReasoning,
\* getSelfCritique, getSkills and close leave patterns and vectors unchanged.
C15_AppendOnly ==
  [][/\ Len(patterns') >= Len(patterns)
     /\ SubSeq(patterns', 1, Len(patterns)) = patterns
     /\ Len(vectors') >= Len(vectors)
     /\ SubSeq(vectors', 1, Len(vectors)) = vectors
     /\ ret'.op = "storePattern" =>
          /\ Len(patterns') = Len(patterns) + 1
          /\ Len(vectors') = Len(vectors) + 1
     /\ ret'.op \in {"findSimilar", "getCausalReasoning", "getSelfCritique",
                     "getSkills", "close"} =>
          /\ patterns' = patterns
          /\ vectors' = vectors]_vars

\* storePattern has added a third entry, with a skill id, behind a failed
\* and a successful one.
C15_Witness ==
  /\ ret.op = "storePattern"
  /\ Len(patterns) = 3
  /\ patterns[1].outcome < 0
  /\ patterns[2].outcome > 0
  /\ patterns[2].skillId # 0
  /\ ret.value = patterns[3]
  /\ ret.value.skillId # 0

\* Dimensions 5..7 and 8..127 of the code, as indices of the model.
ActionSlice == 6..8
RestSlice == 9..D

\* C16: in every stored encoding the dimensions 5..7 are the one-hot code of
\* the action over (buy, sell, hold), all zero for an action outside the
\* vocabulary, and the dimensions 8..127 are 0; so the encodings of two
\* patterns with the same action agree outside the dimensions 0..4.
\* Encoding raises nothing.
C16_ActionSlice ==
  /\ ret.op = "storePattern" => ~ret.raised
  /\ \A i \in 1..Len(vectors) :
       LET action == patterns[i].pattern.action
       IN /\ At(vectors[i], 6) = IF action = "buy" THEN 1 ELSE 0
          /\ At(vectors[i], 7) = IF action = "sell" THEN 1 ELSE 0
          /\ At(vectors[i], 8) = IF action = "hold" THEN 1 ELSE 0
          /\ \A d \in RestSlice : At(vectors[i], d) = 0
          /\ DOMAIN vectors[i].nz \subseteq 1..D
  /\ \A i, j \in 1..Len(vectors) :
       patterns[i].pattern.action = patterns[j].pattern.action =>
         \A d \in ActionSlice \cup RestSlice :
           At(vectors[i], d) = At(vectors[j], d)

\* Two different buy patterns and a pattern with an action outside the
\* vocabulary are stored: the first two encodings differ, the third is zero
\* in the action slice.
C16_Witness ==
  /\ Len(patterns) = 3
  /\ patterns[1].pattern = PatBuyA
  /\ patterns[2].pattern = PatBuyB
  /\ patterns[3].pattern = PatOther
  /\ vectors[1] # vectors[2]
  /\ At(vectors[1], 6) = 1
  /\ \A d \in ActionSlice : At(vectors[3], d) = 0
  /\ ret.op = "storePattern"

\* The findSimilar call that just returned took the in-memory path.
InMemoryPath ==
  \/ ~(initialized /\ "vectorSearch" \in components)
  \/ ret.threw

\* Every element of the encoding of the pattern is 0.
ZeroEncoding(pattern) ==
  \A d \in 1..D : patternToVector(pattern)[d] = 0

\* C17: on the in-memory path the similarity of a stored vector with the
\* query is exactly 0, a number, whenever one of the two has magnitude 0;
\* the call raises nothing.
C17_ZeroVectorSimilarity ==
  (ret.op = "findSimilar" /\ InMemoryPath) =>
    /\ ~ret.raised
    /\ \A i \in 1..Len(ret.value) :
         /\ ret.value[i].similarity.den # 0
         /\ (ZeroEncoding(ret.pattern) \/ ZeroEncoding(ret.value[i].pattern))
              => ret.value[i].similarity.num = 0

\* The in-memory path scored a stored zero vector against a query that is
\* not zero, next to an entry of positive similarity.
C17_Witness ==
  /\ ret.op = "findSimilar"
  /\ InMemoryPath
  /\ ~ZeroEncoding(ret.pattern)
  /\ \E i, j \in 1..Len(ret.value) :
       /\ ZeroEncoding(ret.value[i].pattern)
       /\ ret.value[i].similarity.num = 0
       /\ ret.value[j].similarity.num > 0

\* The tickets of the storePattern calls suspended at their await.
WaitingStoreTickets ==
  {Inflight[i].ticket :
     i \in {j \in 1..Len(Inflight) : Inflight[j].op = "storePattern"}}

\* C18: of the storePattern calls issued while the initialization is
\* pending none writes before it settles; afterwards they complete in the
\* order of their issue: the call issued n-th (from 0) returns the entry
\* with id n, the ids stored are 0..N-1, the calls still waiting are those
\* issued after the ones that returned, and an edge links an entry to the
\* next one.
C18_BurstInIssueOrder ==
  /\ initPromise = "pending" =>
       /\ patterns = <<>>
       /\ vectors = <<>>
       /\ ret.op # "storePattern"
  /\ ret.op = "storePattern" =>
       /\ ~ret.raised
       /\ ret.value.id = ret.ticket
       /\ patterns[Len(patterns)] = ret.value
  /\ \A i \in 1..Len(patterns) : patterns[i].id = i - 1
  /\ WaitingStoreTickets =
       Len(patterns)..(Len(patterns) + StoresInflight - 1)
  /\ \A i \in 1..Len(edges) : edges[i].toId = edges[i].fromId + 1

\* Three calls were issued while the initialization was pending; the third
\* has returned the entry with id 2 and its edge from the entry with id 1.
C18_Witness ==
  /\ ret.op = "storePattern"
  /\ ret.ticket = 2
  /\ ret.value.id = 2
  /\ Len(patterns) = 3
  /\ Len(edges) = 2
  /\ edges[2].fromId = 1
  /\ edges[2].toId = 2

\* The same order for calls issued at any time.  It does not hold under
\* Spec: a call issued after the initialization settled, before the
\* continuation of a call that waited for it has run, overtakes that call
\* (its await takes one tick, the other's two).
IssueOrderAtAnyTime ==
  ret.op = "storePattern" => ret.value.id = ret.ticket

\* The initialization has settled and failed: in-memory fallback mode.
FallbackMode == initPromise = "fulfilled" /\ ~initialized

\* Only the step in which the pending initialization settles changes
\* _initialized, a component or _initPromise: the initialization is
\* attempted once, is not retried and the mode does not change afterwards.
InitSettlesOnce ==
  <<initialized, components, initPromise>>' #
      <<initialized, components, initPromise>>
    => initPromise = "pending" /\ initPromise' = "fulfilled"

SuccessfulEntries == {i \in 1..Len(patterns) : patterns[i].outcome > 0}
SuccessfulBefore(i) == Cardinality({j \in SuccessfulEntries : j < i})

\* C20: getSkills returns, without using the backend, one record per stored
\* entry with outcome > 0, in insertion order, with the entry's action as
\* name and its pattern; no entry with outcome <= 0 appears.
C20_SkillsOfSuccessfulEntries ==
  ret.op = "getSkills" =>
    /\ ~ret.raised
    /\ ret.used = {}
    /\ Len(ret.value) = Cardinality(SuccessfulEntries)
    /\ \A i \in SuccessfulEntries :
         ret.value[SuccessfulBefore(i) + 1] =
           [name |-> patterns[i].pattern.action,
            pattern |-> patterns[i].pattern]

\* getSkills returns two skills for three entries, one of them failed,
\* while the backend's library holds one skill (createSkill threw for the
\* other) and another call is suspended at its await.
C20_Witness ==
  /\ ret.op = "getSkills"
  /\ initialized
  /\ Len(patterns) = 3
  /\ Cardinality(SuccessfulEntries) = 2
  /\ Len(skills) = 1
  /\ Len(ret.value) = 2
  /\ microtasks # <<>>

\* C21: for every record of the audit trail, the valid flag getProofHistory
\* reports equals the valid flag the verifyStrategy call that pushed the
\* record returned, in simulation mode as in Lean mode.
C21_HistoryValidAsReturned ==
  \A c \in Calls :
    verifications[c].pc = "done" =>
      getProofHistory(proofs)[verifications[c].record].valid
        = verifications[c].result.valid

\* The calls that are past the push of their path.
Pushed == {c \in Calls : verifications[c].pc \in {"return", "done"}}

\* C22: every verifyStrategy call appends exactly one record to the audit
\* trail, whichever path it takes (the Lean proof succeeds, a Lean step
\* throws and the call falls back to simulation, simulation from the
\* start): the trail holds one record for each call past its push and
\* none for the others, each such call has pushed a record of its own,
\* and a step only ever appends to the trail.
C22_OneRecordPerCall ==
  /\ [](/\ Len(proofs) = Cardinality(Pushed)
        /\ \A c \in Calls :
             IF c \in Pushed
               THEN verifications[c].record \in 1..Len(proofs)
               ELSE verifications[c].record = 0
        /\ \A c, d \in Pushed :
             c # d => verifications[c].record # verifications[d].record)
  /\ [][/\ Len(proofs') \in {Len(proofs), Len(proofs) + 1}
        /\ SubSeq(proofs', 1, Len(proofs)) = proofs]_vars

\* One call returned from the Lean path and another fell back from Lean
\* to simulation; the trail holds their two records.
C22_Witness ==
  /\ Len(proofs) = 2
  /\ \E c, d \in Calls :
       /\ verifications[c].pc = "done"
       /\ verifications[c].path = "lean"
       /\ verifications[c].result.method = "lean4_formal_verification"
       /\ verifications[d].pc = "done"
       /\ verifications[d].path = "fallback"
       /\ verifications[d].result.method = "simulation"

\* The sum of the counts over all keys of metaPatterns.
RECURSIVE SumOfCounts(_, _)
SumOfCounts(map, keys) ==
  IF keys = {} THEN 0
  ELSE LET k == CHOOSE key \in keys : TRUE
       IN  map[k].count + SumOfCounts(map, keys \ {k})

Completed == {c \in Analyses : analyses[c].pc = "done"}

\* The calls that have set their counter and have not returned yet.
Counted == {c \in Analyses : analyses[c].pc = "return"}

\* C23: the meta-pattern counters lose no update.  On an instance whose
\* backend initialized, the sum of the counts over all keys is the number
\* of completed analyzePattern calls plus the calls that have counted and
\* are about to return, so that it is the number of completed calls
\* whenever no call is in flight, also when metaLearn throws and when
\* calls overlap; each key's count is the number of such calls with that
\* key; in fallback mode metaPatterns stays empty.
C23_NoLostMetaUpdate ==
  /\ analyzerInitialized =>
       /\ SumOfCounts(metaPatterns, DOMAIN metaPatterns)
            = Cardinality(Completed) + Cardinality(Counted)
       /\ \A trend \in Trends, detected \in BOOLEAN :
            countOf(metaPatterns, patternKey(trend, detected))
              = Cardinality({c \in Completed \cup Counted :
                               /\ analyses[c].trend = trend
                               /\ analyses[c].detected = detected})
  /\ ~analyzerInitialized => DOMAIN metaPatterns = {}

\* On an initialized instance one call has returned and two overlapping
\* calls have both counted under one key, the metaLearn of one of them
\* having thrown; the key's count is at least 2.
C23_Witness ==
  /\ analyzerInitialized
  /\ Completed # {}
  /\ \E c, d \in Counted :
       /\ c # d
       /\ analyses[c].trend = analyses[d].trend
       /\ analyses[c].detected = analyses[d].detected
       /\ analyses[c].learnThrew /\ ~analyses[d].learnThrew
       /\ metaPatterns[patternKey(analyses[c].trend,
                                  analyses[c].detected)].count >= 2

====
